---------------------------- MODULE Spec2Model ----------------------------
(***************************************************************************)
(* Model of the Functest backend of Perceval                               *)
(* (perceval/backends/opnfv/functest.py): the Functest connector, its      *)
(* paginated REST client FunctestClient, and the generator protocol that   *)
(* links the caller, Backend.fetch, Functest.fetch_items and               *)
(* FunctestClient.results.                                                 *)
(*                                                                         *)
(* The caller drives a fetch call as a Python generator.  The positions of *)
(* a call are                                                              *)
(*   "idle"      no generator exists yet                                   *)
(*   "fresh"     fetch() returned the generator, nothing has run           *)
(*   "request"   results() is inside self.fetch(url, payload=params)       *)
(*   "yielded"   an item was handed to the caller, who holds the generator *)
(*   "done"      the generator ended normally (StopIteration)              *)
(*   "failed"    the generator ended with an exception                     *)
(*   "abandoned" the caller dropped the generator before its end           *)
(***************************************************************************)
EXTENDS Integers, Sequences, FiniteSets, TLC

\* ------------------------------------------------------------------ bounds
\* Highest page number the server knows (current_page, total_pages range).
MaxPage == 2
\* Cap on the HTTP requests one fetch call may issue (the code has no cap).
MaxRequests == 3
\* Number of fetch calls made on the connector in one behaviour.
MaxCalls == 2

\* --------------------------------------------------------- program constants
CATEGORY_FUNCTEST == "functest"
CATEGORIES == {CATEGORY_FUNCTEST}
MAX_RETRIES == 3
PFROM_DATE == "from"
PTO_DATE == "to"
PPAGE == "page"

\* Python's None.
None == [none |-> TRUE]

\* ------------------------------------------------------------------ datetimes
\* A datetime is its wall-clock second, its sub-second part and the offset
\* of its time zone from UTC; the instant is wall - off (+ frac).
DateTime(wall, frac, off) == [wall |-> wall, frac |-> frac, off |-> off]

DEFAULT_DATETIME == DateTime(0, 0, 0)

\* grimoirelab_toolkit.datetime.datetime_to_utc: same instant, UTC offset.
datetime_to_utc(dt) == DateTime(dt.wall - dt.off, dt.frac, 0)

\* datetime.strftime("%Y-%m-%d %H:%M:%S"): the wall-clock second; the
\* sub-second part and the time zone are not printed.
strftime(dt) == dt.wall

\* The datetimes a caller passes: one with a sub-second part in a zone one
\* second east of UTC, one plain UTC value that lies before it.
FromDates == {None, DateTime(3, 1, 1)}
ToDates == {None, DateTime(1, 0, 0)}
\* The values datetime_utcnow() may return.
NowTimes == {DateTime(4, 1, 0)}

\* ------------------------------------------------------------------ records
\* A result record is a JSON object: a function from its keys.
Rec(id, start) == ("_id" :> id) @@ ("start_date" :> start)
RecNoStart(id) == ("_id" :> id)
RecNoId(start) == ("start_date" :> start)

\* The `results` arrays a page may hold.
ValidLists == { << >>, << Rec(2, 8), Rec(1, 7) >> }
FaultyLists ==
    { << Rec(1, 7), RecNoStart(3), Rec(2, 8) >>,
      << RecNoId(9), Rec(2, 8) >> }

Paginations == [current_page : 0..MaxPage, total_pages : 0..MaxPage]

\* A raw page is the text of one HTTP response.  `json` tells whether the
\* text is valid JSON; `body` is the object it denotes.
RawPage(body) == [json |-> TRUE, body |-> body]
EmptyObject == [k \in {} |-> 0]
NotJson == [json |-> FALSE, body |-> EmptyObject]

Page(rs, pg) == RawPage(("results" :> rs) @@ ("pagination" :> pg))

\* Pages that vary in what the server reports about the pagination.
PagingPages == { Page(<< Rec(1, 7) >>, pg) : pg \in Paginations }

\* Pages that vary in their records, and pages that are malformed.
RecordPages ==
    { Page(rs, [current_page |-> p, total_pages |-> 2]) :
        rs \in ValidLists, p \in 1..2 }
    \cup { Page(rs, [current_page |-> 1, total_pages |-> 2]) :
             rs \in FaultyLists }
    \cup { NotJson,
           RawPage("pagination" :> [current_page |-> 1, total_pages |-> 1]),
           RawPage("results" :> << Rec(1, 7) >>),
           RawPage(("results" :> << Rec(2, 8), Rec(1, 7) >>)
                   @@ ("pagination" :> [total_pages |-> 2])) }

Contents == PagingPages \cup RecordPages

\* ------------------------------------------------------------------ state
VARIABLES
    archive,      \* Backend.archive: [bound, entries]; entries are the
                  \* recorded responses, each under its request signature
    client,       \* Functest.client (self.client)
    universe,     \* the pages the server of this behaviour may answer with
    server,       \* the server's pages revealed so far: page -> raw page
    pc,           \* position of the current fetch call (see above)
    mode,         \* from_archive flag of the current call
    category,     \* category argument of the current call
    window,       \* kwargs of the current call: from_date, to_date
    params,       \* FunctestClient.results: the local dict `params`
    content,      \* FunctestClient.results: the local `content`
    buffer,       \* Functest.fetch_items: records of parsed_data not yet
                  \* reached by the inner for loop
    attempts,     \* failed attempts of the request in progress
    error,        \* the exception that ended the call, or "none"
    outcome,      \* history: how the latest self.fetch of the call ended
    requests,     \* history: payloads of the HTTP requests of this call
    reads,        \* history: payloads looked up in the archive by this call
    pages,        \* history: raw pages results() yielded in this call
    delivered,    \* history: items handed to the caller in this call
    calls,        \* history: number of fetch calls started
    atStart,      \* history: archive and client when the call started
    recorded      \* history: completed runs in normal mode: window,
                  \* requests and items

vars == << archive, client, universe, server, pc, mode, category, window,
           params,
           content, buffer, attempts, error, outcome, requests, reads,
           pages, delivered, calls, atStart, recorded >>

callVars == << params, content, buffer, attempts, requests, reads, pages,
               delivered >>

Terminal == {"done", "failed", "abandoned"}

NoPage == [json |-> FALSE, body |-> EmptyObject, nopage |-> TRUE]
NoParams == EmptyObject

\* ------------------------------------------------------- Functest (backend)
\* Functest.fetch, lines 75-76: the window the call works on.
ResolveFrom(from_date) ==
    IF from_date # None THEN datetime_to_utc(from_date) ELSE DEFAULT_DATETIME

ResolveTo(to_date, now) ==
    IF to_date # None THEN datetime_to_utc(to_date) ELSE now

\* Functest.parse_json: json.loads(raw_json)['results'].
json_loads(raw) == raw.body

\* Mutant: the first record of every page is lost.
parse_json_tail(raw) ==
    IF raw.body["results"] = << >> THEN << >> ELSE Tail(raw.body["results"])

ParseFails(raw) == ~raw.json \/ "results" \notin DOMAIN json_loads(raw)

ParseError(raw) == IF ~raw.json THEN "JSONDecodeError" ELSE "KeyError:results"

parse_json(raw) == json_loads(raw)["results"]

\* Functest.metadata_id: str(item['_id']).
str(x) == [str |-> x]

metadata_id(item) == str(item["_id"])

\* Functest.metadata_updated_on: str_to_datetime(item['start_date'])
\* .timestamp(); the date strings of the model denote UTC seconds.
str_to_datetime(ts) == DateTime(ts, 0, 0)

timestamp(dt) == [sec |-> dt.wall - dt.off, frac |-> dt.frac]

metadata_updated_on(item) == timestamp(str_to_datetime(item["start_date"]))

metadata_category(item) == CATEGORY_FUNCTEST

\* Mutant: the default category is passed on instead of the argument.
PassedCategoryDefault(cat) == CATEGORY_FUNCTEST

\* Functest.fetch, line 79: the category handed to Backend.fetch.
PassedCategory(cat) == cat

\* Mutant: the client is always built in normal mode.
_init_client_normal(from_archive) ==
    [archive |-> archive.bound, from_archive |-> FALSE]

\* Mutant: the archive is not handed to the client.
_init_client_unbound(from_archive) ==
    [archive |-> FALSE, from_archive |-> from_archive]

\* Functest._init_client: FunctestClient(self.url, self.archive, from_archive).
_init_client(from_archive) ==
    [archive |-> archive.bound, from_archive |-> from_archive]

\* Backend.metadata wraps every record fetch_items yields; it raises
\* KeyError when metadata_id or metadata_updated_on do.
MetadataFails(item) ==
    "_id" \notin DOMAIN item \/ "start_date" \notin DOMAIN item

MetadataError(item) ==
    IF "_id" \notin DOMAIN item THEN "KeyError:_id" ELSE "KeyError:start_date"

metadata(item) ==
    [identifier |-> metadata_id(item),
     updated_on |-> metadata_updated_on(item),
     category |-> metadata_category(item),
     data |-> item]

\* ------------------------------------------------- FunctestClient (client)
\* Mutant: the class constant is not passed on and the larger default of
\* HttpClient applies.
max_retries_default == MAX_RETRIES + 2

\* FunctestClient.__init__, line 203: max_retries=FunctestClient.MAX_RETRIES.
max_retries == MAX_RETRIES

\* urijoin(self.base_url, FUNCTEST_API_PATH, RRESULTS)
ResultsUrl == "<base_url>/api/v1/results"

\* Mutant: the page counter starts at 0.
InitialParamsZero(from_date, to_date) ==
    LET base == (PFROM_DATE :> strftime(from_date)) @@ (PPAGE :> 0)
    IN  IF to_date # None
        THEN base @@ (PTO_DATE :> strftime(to_date))
        ELSE base

\* Mutant: the page counter resumes after the pages already archived.
InitialParamsResume(from_date, to_date) ==
    LET base == (PFROM_DATE :> strftime(from_date))
                @@ (PPAGE :> Cardinality(archive.entries) + 1)
    IN  IF to_date # None
        THEN base @@ (PTO_DATE :> strftime(to_date))
        ELSE base

\* Mutant: the page counter goes on from one call to the next.
InitialParamsCarried(from_date, to_date) ==
    LET base == (PFROM_DATE :> strftime(from_date)) @@ (PPAGE :> calls)
    IN  IF to_date # None
        THEN base @@ (PTO_DATE :> strftime(to_date))
        ELSE base

\* FunctestClient.results, lines 209-217: the first payload.
InitialParams(from_date, to_date) ==
    LET base == (PFROM_DATE :> strftime(from_date)) @@ (PPAGE :> 1)
    IN  IF to_date # None
        THEN base @@ (PTO_DATE :> strftime(to_date))
        ELSE base

\* FunctestClient.results, lines 226-227.
CurrentPage(raw) == json_loads(raw)["pagination"].current_page

TotalPages(raw) == json_loads(raw)["pagination"].total_pages

\* j['pagination']['current_page'] and j['pagination']['total_pages'] raise
\* KeyError when the envelope or one of its fields is missing.
PaginationFails(raw) ==
    \/ "pagination" \notin DOMAIN json_loads(raw)
    \/ "current_page" \notin DOMAIN json_loads(raw)["pagination"]
    \/ "total_pages" \notin DOMAIN json_loads(raw)["pagination"]

PaginationError(raw) ==
    IF "pagination" \notin DOMAIN json_loads(raw)
    THEN "KeyError:pagination"
    ELSE IF "current_page" \notin DOMAIN json_loads(raw)["pagination"]
         THEN "KeyError:current_page"
         ELSE "KeyError:total_pages"

\* Mutant: the comparison made strict.
LastPageStrict(page, total_pages) == page > total_pages

\* FunctestClient.results, line 229: `if page >= total_pages: break`.
LastPage(page, total_pages) == page >= total_pages

\* Mutant: the payload of the next page is built anew, without `to`.
NextParamsWithoutTo(ps, page) ==
    (PFROM_DATE :> ps[PFROM_DATE]) @@ (PPAGE :> page + 1)

\* FunctestClient.results, line 232: params[PPAGE] = page + 1.
NextParams(ps, page) == [ps EXCEPT ![PPAGE] = page + 1]

\* HttpClient: a request's signature in the archive is its URL and payload.
Signature(ps) == [url |-> ResultsUrl, payload |-> ps]

Stored(ps) == { e \in archive.entries : e.sig = Signature(ps) }

\* ------------------------------------------------------------------ steps
\* The generator ends with exception e.
Raise(e) ==
    /\ pc' = "failed"
    /\ error' = e
    /\ UNCHANGED << params, attempts, requests, reads, delivered, recorded >>

\* Mutant: results() swallows the error and goes on with the next page.
ResultsSkipPage(e) ==
    /\ Len(requests) + Len(reads) < MaxRequests
    /\ pc' = "request"
    /\ params' = [params EXCEPT ![PPAGE] = @ + 1]
    /\ attempts' = 0
    /\ requests' = Append(requests, params')
    /\ UNCHANGED << error, reads, delivered, recorded >>

\* FunctestClient.results, lines 219-221, and Functest.fetch_items, line
\* 102: neither handles an exception of self.fetch, so it ends results(),
\* fetch_items() and the generator the caller holds.
ResultsRaise(e) == Raise(e)

\* results() reaches `response = self.fetch(url, payload=params)` with
\* payload ps: an HTTP request in normal mode, an archive lookup in replay
\* mode.
Issue(ps, cl) ==
    /\ Len(requests) + Len(reads) < MaxRequests
    /\ pc' = "request"
    /\ params' = ps
    /\ attempts' = 0
    /\ IF cl.from_archive
       THEN reads' = Append(reads, ps) /\ requests' = requests
       ELSE requests' = Append(requests, ps) /\ reads' = reads
    /\ UNCHANGED << error, delivered, recorded >>

\* Functest.fetch_items, line 109, then StopIteration.  A run in normal
\* mode that came to its end is remembered for the runs after it.
Finish ==
    /\ pc' = "done"
    /\ recorded' = IF ~mode
                   THEN recorded \cup {[from_date |-> window.from_date,
                                        to_date |-> window.to_date,
                                        requests |-> requests,
                                        items |-> delivered]}
                   ELSE recorded
    /\ UNCHANGED << params, attempts, requests, reads, delivered, error >>

\* FunctestClient.results, lines 225-232, resumed after `yield content`
\* once fetch_items has run out of records of the page raw.
Paginate(raw) ==
    IF PaginationFails(raw)
    THEN Raise(PaginationError(raw))
    ELSE IF LastPage(CurrentPage(raw), TotalPages(raw))
         THEN Finish
         ELSE Issue(NextParams(params, CurrentPage(raw)), client)

\* Functest.fetch_items, lines 102-107 under Backend.fetch, with buf the
\* records of the page raw that the inner loop has not reached: it takes
\* the next record, or the outer loop asks results() for the next page.
NextItem(buf, raw) ==
    IF buf # << >>
    THEN /\ buffer' = Tail(buf)
         /\ IF MetadataFails(Head(buf))
            THEN Raise(MetadataError(Head(buf)))
            ELSE /\ pc' = "yielded"
                 /\ delivered' = Append(delivered, metadata(Head(buf)))
                 /\ UNCHANGED << params, attempts, requests, reads, error,
                                 recorded >>
    ELSE /\ buffer' = buf
         /\ Paginate(raw)

RECURSIVE SkipFaulty(_)
\* The records of buf from its first record that has both metadata fields.
SkipFaulty(buf) ==
    IF buf = << >> \/ ~MetadataFails(Head(buf))
    THEN buf
    ELSE SkipFaulty(Tail(buf))

\* Mutant: a record without its metadata fields is skipped silently.
ContinueSkipFaulty(buf, raw) == NextItem(SkipFaulty(buf), raw)

\* Mutant: the next page is asked for once the first record of a page has
\* been taken.
ContinueEager(buf, raw) ==
    NextItem(IF buf # << >> /\ Len(buf) < Len(parse_json(raw))
             THEN << >>
             ELSE buf,
             raw)

\* Functest.fetch_items, lines 102-107: the generator resumes its loops.
Continue(buf, raw) == NextItem(buf, raw)

\* Mutant: a page that cannot be parsed counts as a page without records.
YieldLenient(raw) ==
    /\ content' = raw
    /\ pages' = Append(pages, raw)
    /\ Continue(IF ParseFails(raw) THEN << >> ELSE parse_json(raw), raw)

\* Mutant: results() reads the pagination envelope before it yields.
YieldParsed(raw) ==
    /\ content' = raw
    /\ pages' = Append(pages, raw)
    /\ IF ParseFails(raw)
       THEN buffer' = << >> /\ Raise(ParseError(raw))
       ELSE IF PaginationFails(raw)
            THEN buffer' = << >> /\ Raise(PaginationError(raw))
            ELSE Continue(parse_json(raw), raw)

\* FunctestClient.results, lines 222-223, and Functest.fetch_items, lines
\* 102-103: the response text raw is yielded and parsed.
Yield(raw) ==
    /\ content' = raw
    /\ pages' = Append(pages, raw)
    /\ IF ParseFails(raw)
       THEN buffer' = << >> /\ Raise(ParseError(raw))
       ELSE Continue(parse_json(raw), raw)

\* ---------------------------------------------------------------- actions
\* Functest.fetch(category, from_date, to_date): resolves the window and
\* returns the generator of Backend.fetch; nothing of it has run yet.
Fetch(cat, from_date, to_date, now) ==
    /\ pc \in {"idle"} \cup Terminal
    /\ calls < MaxCalls
    /\ pc' = "fresh"
    /\ mode' = FALSE
    /\ category' = cat
    /\ window' = [from_date |-> ResolveFrom(from_date),
                  to_date |-> ResolveTo(to_date, now)]
    /\ params' = NoParams
    /\ content' = NoPage
    /\ buffer' = << >>
    /\ attempts' = 0
    /\ error' = "none"
    /\ outcome' = "none"
    /\ requests' = << >>
    /\ reads' = << >>
    /\ pages' = << >>
    /\ delivered' = << >>
    /\ calls' = calls + 1
    /\ atStart' = [archive |-> archive, client |-> client]
    /\ UNCHANGED << archive, client, universe, server, recorded >>

\* Backend.fetch_from_archive: the same generator over the window w that
\* the archive was recorded with, with a client in replay mode.
FetchFromArchive(w) ==
    /\ pc \in {"idle"} \cup Terminal
    /\ calls < MaxCalls
    /\ archive.bound
    /\ pc' = "fresh"
    /\ mode' = TRUE
    /\ category' = CATEGORY_FUNCTEST
    /\ window' = w
    /\ params' = NoParams
    /\ content' = NoPage
    /\ buffer' = << >>
    /\ attempts' = 0
    /\ error' = "none"
    /\ outcome' = "none"
    /\ requests' = << >>
    /\ reads' = << >>
    /\ pages' = << >>
    /\ delivered' = << >>
    /\ calls' = calls + 1
    /\ atStart' = [archive |-> archive, client |-> client]
    /\ UNCHANGED << archive, client, universe, server, recorded >>

\* The caller's first next(): Backend.fetch checks the category and sets
\* self.client; fetch_items calls results(), which builds params and issues
\* the first request.
Start ==
    /\ pc = "fresh"
    /\ IF PassedCategory(category) \notin CATEGORIES
       THEN /\ Raise("BackendError")
            /\ client' = client
       ELSE /\ client' = _init_client(mode)
            /\ Issue(InitialParams(window.from_date, window.to_date),
                     _init_client(mode))
    /\ UNCHANGED << archive, universe, server, mode, category, window,
                    content, buffer, outcome, pages, calls, atStart >>

\* HttpClient.fetch in normal mode, the request answered with the text raw.
\* The server's answer to a page it has served before is the same; with an
\* archive bound the response is stored under the request's signature
\* before it is returned, and a signature already stored is refused.
FetchFromRemote(raw) ==
    /\ pc = "request"
    /\ ~client.from_archive
    /\ raw \in universe
    /\ LET page == params[PPAGE] IN
       /\ page \in DOMAIN server => raw = server[page]
       /\ server' = (page :> raw) @@ server
    /\ IF client.archive /\ Stored(params) # {}
       THEN /\ ResultsRaise("ArchiveError")
            /\ outcome' = "refused"
            /\ UNCHANGED << archive, content, buffer, pages >>
       ELSE /\ outcome' = "response"
            /\ archive' =
                IF client.archive
                THEN [archive EXCEPT !.entries =
                        @ \cup {[sig |-> Signature(params), content |-> raw]}]
                ELSE archive
            /\ Yield(raw)
    /\ UNCHANGED << client, universe, mode, category, window, calls, atStart >>

\* HttpClient.fetch in normal mode, an attempt of the request failing: it
\* is tried again while the retry budget lasts, and raises after that.
RequestFails ==
    /\ pc = "request"
    /\ ~client.from_archive
    /\ IF attempts + 1 < max_retries
       THEN /\ attempts' = attempts + 1
            /\ outcome' = "retry"
            /\ UNCHANGED << pc, error, params, requests, reads, delivered,
                            recorded >>
       ELSE /\ outcome' = "exhausted"
            /\ ResultsRaise("TransportError")
    /\ UNCHANGED << archive, client, universe, server, mode, category,
                    window, content, buffer, pages, calls, atStart >>

\* HttpClient.fetch in replay mode: the response stored under the request's
\* signature, or an error when there is none.
ReadArchive ==
    /\ pc = "request"
    /\ client.from_archive
    /\ IF ~client.archive \/ Stored(params) = {}
       THEN /\ outcome' = "missing"
            /\ ResultsRaise("ArchiveError")
            /\ UNCHANGED << content, buffer, pages >>
       ELSE /\ outcome' = "replayed"
            /\ Yield((CHOOSE e \in Stored(params) : TRUE).content)
    /\ UNCHANGED << archive, client, universe, server, mode, category,
                    window, calls, atStart >>

\* The caller asks for one more item: next() on the generator.
Advance ==
    /\ pc = "yielded"
    /\ Continue(buffer, content)
    /\ UNCHANGED << archive, client, universe, server, mode, category,
                    window, content, outcome, pages, calls, atStart >>

\* The caller drops the generator before its end.
Abandon ==
    /\ pc \in {"fresh", "yielded"}
    /\ pc' = "abandoned"
    /\ UNCHANGED << archive, client, universe, server, mode, category,
                    window, params, content, buffer, attempts, error,
                    outcome, requests, reads, pages, delivered, calls,
                    atStart, recorded >>

\* ---------------------------------------------------------- specification
Windows ==
    { [from_date |-> ResolveFrom(f), to_date |-> ResolveTo(t, n)] :
        f \in FromDates, t \in ToDates, n \in NowTimes }

\* Functest.__init__: a connector with or without an archive, no client.
Init ==
    /\ archive \in {[bound |-> b, entries |-> {}] : b \in BOOLEAN}
    /\ client = None
    /\ universe \in {PagingPages, RecordPages}
    /\ server = EmptyObject
    /\ pc = "idle"
    /\ mode = FALSE
    /\ category = CATEGORY_FUNCTEST
    /\ window = [from_date |-> DEFAULT_DATETIME, to_date |-> DEFAULT_DATETIME]
    /\ params = NoParams
    /\ content = NoPage
    /\ buffer = << >>
    /\ attempts = 0
    /\ error = "none"
    /\ outcome = "none"
    /\ requests = << >>
    /\ reads = << >>
    /\ pages = << >>
    /\ delivered = << >>
    /\ calls = 0
    /\ atStart = [archive |-> archive, client |-> client]
    /\ recorded = {}

Next ==
    \/ \E cat \in {CATEGORY_FUNCTEST, "other"}, f \in FromDates,
          t \in ToDates, n \in NowTimes : Fetch(cat, f, t, n)
    \/ \E w \in Windows : FetchFromArchive(w)
    \/ Start
    \/ \E raw \in Contents : FetchFromRemote(raw)
    \/ RequestFails
    \/ ReadArchive
    \/ Advance
    \/ Abandon

Spec == Init /\ [][Next]_vars

\* ------------------------------------------------------------ properties
\* Helpers of the properties below.
HasPagination(raw) ==
    /\ raw.json
    /\ "pagination" \in DOMAIN raw.body
    /\ {"current_page", "total_pages"} \subseteq DOMAIN raw.body["pagination"]

HasResults(raw) == raw.json /\ "results" \in DOMAIN raw.body

\* Payloads results() has handed to self.fetch in this call.
Issued == requests \o reads

RECURSIVE ConcatResults(_)
\* The `results` arrays of the pages ps, one after the other.
ConcatResults(ps) ==
    IF ps = << >>
    THEN << >>
    ELSE (IF HasResults(Head(ps)) THEN Head(ps).body["results"] ELSE << >>)
         \o ConcatResults(Tail(ps))

\* The records inside the items handed to the caller.
DeliveredData == [i \in 1..Len(delivered) |-> delivered[i].data]

\* C1: a page that reports current_page >= total_pages is the last page of
\* the call: it is the last one yielded, no request follows the one that
\* fetched it, and when the caller has taken its records and asks for more
\* the generator ends normally.
C1_LastPageEndsSequence ==
    /\ [](\A i \in 1..Len(pages) :
            (HasPagination(pages[i])
             /\ pages[i].body["pagination"].current_page
                  >= pages[i].body["pagination"].total_pages)
            => (i = Len(pages) /\ Len(Issued) = i))
    /\ [][(/\ pc = "yielded"
           /\ buffer = << >>
           /\ HasPagination(content)
           /\ content.body["pagination"].current_page
                >= content.body["pagination"].total_pages
           /\ pc' # "yielded")
          => (pc' \in {"done", "abandoned"} /\ Issued' = Issued)]_vars

\* C1 witness: a call ended normally after two requests, the second page
\* reporting a current_page beyond total_pages.
C1_Witness ==
    /\ pc = "done"
    /\ Len(requests) = 2
    /\ Len(pages) = 2
    /\ pages[2].body["pagination"].current_page
         > pages[2].body["pagination"].total_pages

\* C2: when a fetch call has run to completion, the records delivered are
\* the concatenation of the `results` arrays of the pages returned, in page
\* order and in-page order.
C2_ItemsAreConcatenation ==
    pc = "done" => DeliveredData = ConcatResults(pages)

\* C2 witness: a completed call over two pages of two records each.
C2_Witness ==
    /\ pc = "done"
    /\ Len(pages) = 2
    /\ Len(delivered) = 4
    /\ delivered[1].data # delivered[2].data

\* The server has answered every request of this call with the requested
\* page number as current_page and with the same total_pages n.
HonestServer(n) ==
    /\ pages # << >>
    /\ Len(pages) <= Len(requests)
    /\ \A i \in 1..Len(pages) :
         /\ HasPagination(pages[i])
         /\ pages[i].body["pagination"].current_page = requests[i][PPAGE]
         /\ pages[i].body["pagination"].total_pages = n

\* C3: against a server that holds n >= 1 pages and reports page k of n on
\* the request for page k, a call consumed to its end has issued exactly n
\* requests, for the pages 1, 2, ..., n in that order.
C3_HonestServerRequests ==
    \A n \in 1..MaxPage :
        (pc = "done" /\ ~mode /\ HonestServer(n))
        => (Len(requests) = n /\ \A i \in 1..n : requests[i][PPAGE] = i)

\* C3 witness: a completed call against a server with two pages.
C3_Witness ==
    /\ pc = "done"
    /\ ~mode
    /\ HonestServer(2)
    /\ Len(requests) = 2

\* The largest total_pages the server has reported in this call.
MaxTotalSeen ==
    LET ts == { pages[i].body["pagination"].total_pages :
                  i \in { k \in 1..Len(pages) : HasPagination(pages[k]) } }
    IN  IF ts = {} THEN 0 ELSE CHOOSE t \in ts : \A u \in ts : u <= t

\* C4 (as claimed): whatever well-formed responses the server returns, the
\* page requests of one results() call are bounded by total_pages: after
\* the first response, never more requests than the largest total_pages
\* reported (one request when that is 0).
C4_RequestsBoundedByTotalPages ==
    (pages # << >> /\ \A i \in 1..Len(pages) : pages[i] \in PagingPages)
    => Len(Issued) <= (IF MaxTotalSeen = 0 THEN 1 ELSE MaxTotalSeen)

\* C5: a request that fails beyond the retry budget ends the call with the
\* transport error; the failed page was not skipped (it is the last one
\* requested and no page was yielded for it), what had been delivered stays
\* delivered, and until a new call starts nothing more is requested or
\* delivered.
C5_TransportErrorIsFatal ==
    /\ [](outcome = "exhausted"
          => /\ pc = "failed"
             /\ error = "TransportError"
             /\ Len(requests) = Len(pages) + 1)
    /\ [][(outcome' = "exhausted" /\ outcome # "exhausted")
          => (requests' = requests /\ delivered' = delivered)]_vars
    /\ [][(outcome = "exhausted" /\ calls' = calls)
          => UNCHANGED << pc, error, requests, reads, delivered >>]_vars

\* C5 witness: the request for the second page failed for good after the
\* first page's record had been delivered.
C5_Witness ==
    /\ error = "TransportError"
    /\ Len(requests) = 2
    /\ Len(delivered) >= 1

\* C6: a fetch call with a category other than "functest" never issues an
\* HTTP request and never reads or writes the archive, and when it is
\* advanced it fails with the unsupported-category error.
C6_UnsupportedCategoryBeforeIO ==
    category \notin {"functest"}
    => /\ requests = << >>
       /\ reads = << >>
       /\ pages = << >>
       /\ archive = atStart.archive
       /\ pc \in {"fresh", "failed", "abandoned"}
       /\ pc = "failed" => error = "BackendError"

\* C6 witness: a call with another category has failed, on a connector
\* with an archive bound.
C6_Witness ==
    /\ category = "other"
    /\ pc = "failed"
    /\ error = "BackendError"
    /\ archive.bound

\* Whether the page raw holds a record without `_id` or `start_date`.
HasFaulty(raw) ==
    HasResults(raw)
    /\ \E k \in 1..Len(raw.body["results"]) :
          MetadataFails(raw.body["results"][k])

\* C7: the records delivered are always a prefix, in server order, of the
\* records of the pages returned, and none of them lacks `_id` or
\* `start_date`; a page with such a record is the last page requested; the
\* call that reaches the record fails there with the KeyError, and until a
\* new call starts nothing more is delivered or requested.
C7_FaultyRecordIsFatal ==
    /\ [](LET all == ConcatResults(pages)
              n == Len(delivered)
          IN  /\ n <= Len(all)
              /\ DeliveredData = SubSeq(all, 1, n)
              /\ \A i \in 1..n : ~MetadataFails(all[i])
              /\ \A i \in 1..Len(pages) :
                    HasFaulty(pages[i])
                    => (i = Len(pages) /\ Len(Issued) = i)
              /\ error \in {"KeyError:_id", "KeyError:start_date"}
                 => (pc = "failed" /\ n < Len(all)
                     /\ MetadataFails(all[n + 1])))
    /\ [][(error \in {"KeyError:_id", "KeyError:start_date"}
           /\ calls' = calls)
          => UNCHANGED << pc, error, Issued, delivered >>]_vars

\* C7 witness: the call failed on a record without start_date after the
\* record before it had been delivered, with one more record behind it.
C7_Witness ==
    /\ error = "KeyError:start_date"
    /\ Len(delivered) = 1
    /\ Len(ConcatResults(pages)) = 3

\* The completed runs in normal mode over the window of the current call;
\* on a connector with an archive they are the archiving runs.
RecordedHere ==
    { r \in recorded : /\ r.from_date = window.from_date
                       /\ r.to_date = window.to_date }

\* C8: a replay run over the window of a completed archiving run issues no
\* HTTP request and finds every page it asks for in the archive; its items
\* are at every moment the first items of the recorded run, and when it
\* ends it has ended normally with exactly the recorded items.
C8_ReplayEquivalence ==
    \A r \in RecordedHere :
        mode
        => /\ requests = << >>
           /\ outcome # "missing"
           /\ archive = atStart.archive
           /\ Len(delivered) <= Len(r.items)
           /\ delivered = SubSeq(r.items, 1, Len(delivered))
           /\ pc \in {"done", "failed"}
              => (pc = "done" /\ delivered = r.items)

\* C8 witness: a replay run has ended after two archive lookups that gave
\* it the items of the recorded run.
C8_Witness ==
    /\ mode
    /\ pc = "done"
    /\ RecordedHere # {}
    /\ Len(reads) = 2
    /\ Len(delivered) >= 2

\* C9: the first payload results() hands to self.fetch in a call has
\* page = 1 and the `from` value of this call's window, whatever the calls
\* before it did.
C9_NoResuming ==
    Issued # << >>
    => /\ Issued[1][PPAGE] = 1
       /\ Issued[1][PFROM_DATE] = strftime(window.from_date)

\* C9 witness: the first request of a second call with an explicit
\* from_date, after an earlier call got as far as page 2 and archived it.
C9_Witness ==
    /\ calls = 2
    /\ pc = "request"
    /\ Len(requests) = 1
    /\ requests[1][PFROM_DATE] = 2
    /\ 2 \in DOMAIN server
    /\ Cardinality(archive.entries) = 2

\* C10 (as claimed): after a call was abandoned the archive is the same as
\* before the call started.
C10_AbandonLeavesArchiveUntouched ==
    pc = "abandoned" => archive = atStart.archive

\* The archive entries of the pages this call has fetched.
FetchedEntries ==
    { [sig |-> Signature(requests[i]), content |-> pages[i]] :
        i \in 1..Len(pages) }

\* C10 (amended): after a call was abandoned the connector holds nothing
\* but its client and its archive; the archive is the same as before the
\* call in replay mode and when none is bound, and in normal mode with an
\* archive bound it has gained exactly the responses of the requests
\* answered before the abandonment.
C10_AbandonLeavesOnlyArchivedPages ==
    pc = "abandoned"
    => /\ client \in {atStart.client,
                      [archive |-> archive.bound, from_archive |-> mode]}
       /\ archive =
            IF ~mode /\ archive.bound
            THEN [atStart.archive EXCEPT !.entries = @ \cup FetchedEntries]
            ELSE atStart.archive

\* C10 witness: a call in normal mode on an archive that held a page
\* already was abandoned after its second page.
C10_Witness ==
    /\ pc = "abandoned"
    /\ ~mode
    /\ archive.bound
    /\ atStart.archive.entries # {}
    /\ Len(pages) = 2
    /\ Len(requests) = 2

C12_MalformedPageAborts ==
    /\ [](\A i \in 1..Len(pages) :
            ~HasResults(pages[i])
            => /\ i = Len(pages)
               /\ Len(Issued) = i
               /\ pc = "failed"
               /\ error = (IF pages[i].json THEN "KeyError:results"
                           ELSE "JSONDecodeError")
               /\ DeliveredData
                    = ConcatResults(SubSeq(pages, 1, i - 1)))
    /\ [][(Len(pages') = Len(pages) + 1
           /\ ~HasResults(pages'[Len(pages')]))
          => (delivered' = delivered /\ Issued' = Issued)]_vars
    /\ [][(error \in {"KeyError:results", "JSONDecodeError"}
           /\ calls' = calls)
          => UNCHANGED << pc, error, Issued, delivered, pages >>]_vars

\* C12 witness: the second page of a call is JSON without `results`, after
\* the two records of the first page were delivered.
C12_Witness ==
    /\ pc = "failed"
    /\ error = "KeyError:results"
    /\ Len(pages) = 2
    /\ pages[2].json
    /\ Len(delivered) = 2
    /\ Len(Issued) = 2

\* C13 (as claimed): within one results() call the `page` parameter of
\* every request after the first is the `page` parameter of the request
\* before it plus 1, whatever current_page the server reported.
C13_PageAdvancesByOne ==
    \A i \in 2..Len(Issued) : Issued[i][PPAGE] = Issued[i - 1][PPAGE] + 1

\* C14: fetching is lazy and sequential.  A call that the caller has not
\* advanced has requested nothing; at most one request is without its
\* response, and none while the caller holds an item; a request is issued
\* only while the generator runs for the caller (first advance, advance
\* past the last record of a page, or receipt of a page without records),
\* one at a time, in a step that delivers nothing, and only when every
\* record of the pages received so far has been handed to the caller.
C14_LazySequential ==
    /\ [](/\ pc \in {"idle", "fresh"} => (Issued = << >> /\ pages = << >>)
          /\ Len(Issued) - Len(pages) \in {0, 1}
          /\ pc = "request" => Len(Issued) = Len(pages) + 1
          /\ pc \in {"yielded", "done"} => Len(Issued) = Len(pages))
    /\ [][(pc = "fresh" /\ pc' = "abandoned") => Issued' = << >>]_vars
    /\ [][Len(Issued') > Len(Issued)
          => /\ Len(Issued') = Len(Issued) + 1
             /\ pc \in {"fresh", "yielded", "request"}
             /\ pc' = "request"
             /\ delivered' = delivered
             /\ DeliveredData = ConcatResults(pages')
             /\ pc = "yielded" => (buffer = << >> /\ pages' = pages)
             /\ pc = "request"
                => /\ Len(pages') = Len(pages) + 1
                   /\ ConcatResults(<< pages'[Len(pages')] >>) = << >>]_vars

\* C14 witness: the request for the second page is under way, issued after
\* both records of the first page had been handed to the caller.
C14_Witness ==
    /\ pc = "request"
    /\ Len(Issued) = 2
    /\ Len(pages) = 1
    /\ Len(delivered) = 2
    /\ DeliveredData = ConcatResults(pages)

\* The errors of reading the pagination envelope.
EnvelopeErrors ==
    {"KeyError:pagination", "KeyError:current_page", "KeyError:total_pages"}

\* A page with a `results` array whose pagination envelope is missing or
\* lacks a field.
NoEnvelope(raw) == HasResults(raw) /\ ~HasPagination(raw)

\* C15: a page is yielded before its pagination envelope is read.  The step
\* that receives a page with records and without a proper envelope hands
\* its first record to the caller; such a page is the last one requested;
\* the envelope error is raised only in the step in which the caller asks
\* for the item after the last record of the page (or on receipt, when the
\* page has no record), with every record of the pages received delivered,
\* and a call that failed with it has delivered all of them.
C15_YieldBeforeEnvelope ==
    /\ [](\A i \in 1..Len(pages) :
            NoEnvelope(pages[i])
            => /\ i = Len(pages)
               /\ Len(Issued) = i
               /\ pc \in {"yielded", "failed", "abandoned"}
               /\ pc = "failed"
                  => /\ error \in EnvelopeErrors
                     /\ DeliveredData = ConcatResults(pages))
    /\ [][(/\ Len(pages') = Len(pages) + 1
           /\ NoEnvelope(pages'[Len(pages')])
           /\ ConcatResults(<< pages'[Len(pages')] >>) # << >>)
          => /\ pc' = "yielded"
             /\ error' = "none"
             /\ Len(delivered') = Len(delivered) + 1]_vars
    /\ [][(error' \in EnvelopeErrors /\ error \notin EnvelopeErrors)
          => /\ pc' = "failed"
             /\ delivered' = delivered
             /\ DeliveredData = ConcatResults(pages')
             /\ \/ pc = "yielded" /\ buffer = << >> /\ pages' = pages
                \/ /\ pc = "request"
                   /\ ConcatResults(<< pages'[Len(pages')] >>) = << >>]_vars

\* C15 witness: the second page of a call has two records and an envelope
\* without current_page; the call failed with all four records delivered.
C15_Witness ==
    /\ pc = "failed"
    /\ error = "KeyError:current_page"
    /\ Len(pages) = 2
    /\ NoEnvelope(pages[2])
    /\ Len(delivered) = 4

\* C16: within one fetch call only `page` changes between requests: every
\* payload handed to self.fetch has `from`, `to` and `page`; `from` is the
\* formatted from_date of the call's window (the formatted default epoch
\* when from_date was omitted) and `to` its formatted to_date; a later
\* payload differs from the one before it in `page` at most; and every
\* response archived is stored under the one results URL.
C16_OnlyPageChanges ==
    /\ [](/\ \A i \in 1..Len(Issued) :
               /\ DOMAIN Issued[i] = {PFROM_DATE, PTO_DATE, PPAGE}
               /\ Issued[i][PFROM_DATE] = strftime(window.from_date)
               /\ Issued[i][PTO_DATE] = strftime(window.to_date)
          /\ \A e \in archive.entries : e.sig.url = ResultsUrl)
    /\ [][(Issued # << >> /\ Len(Issued') = Len(Issued) + 1)
          => LET old == Issued[Len(Issued)]
                 new == Issued'[Len(Issued')]
             IN  /\ DOMAIN new = DOMAIN old
                 /\ \A k \in DOMAIN old \ {PPAGE} : new[k] = old[k]]_vars

\* C16 witness: a call without from_date has issued its second request,
\* for another page, with the formatted default epoch as `from` again.
C16_Witness ==
    /\ window.from_date = DEFAULT_DATETIME
    /\ Len(requests) = 2
    /\ requests[1][PPAGE] # requests[2][PPAGE]
    /\ requests[2][PFROM_DATE] = strftime(DEFAULT_DATETIME)
    /\ requests[2][PTO_DATE] = requests[1][PTO_DATE]

\* C17: in normal mode on a connector with an archive, every page that
\* results() has yielded in the call is in the archive under the signature
\* of its request, at every moment of the call and after its end, however
\* it ended; the step that yields a page is the step that has stored it.
C17_WriteThroughArchive ==
    /\ []((~mode /\ archive.bound) => FetchedEntries \subseteq archive.entries)
    /\ [][(~mode /\ archive.bound /\ Len(pages') = Len(pages) + 1)
          => [sig |-> Signature(params), content |-> pages'[Len(pages')]]
               \in archive'.entries \ archive.entries]_vars

\* C17 witness: the request for the second page failed for good; the first
\* page, yielded before, is in the archive.
C17_Witness ==
    /\ ~mode
    /\ archive.bound
    /\ pc = "failed"
    /\ outcome = "exhausted"
    /\ Len(pages) = 1
    /\ Len(requests) = 2
    /\ FetchedEntries # {}
    /\ FetchedEntries \subseteq archive.entries

\* C18 (as claimed): no HTTP request is sent whose `from` is later than
\* its `to`, also when the call was given a from_date later than its
\* to_date.
C18_WindowOrdered ==
    \A i \in 1..Len(requests) :
        requests[i][PFROM_DATE] <= requests[i][PTO_DATE]

=============================================================================
